---- MODULE Spec2Model ----
(***************************************************************************)
(* Model of the text-generation gateway: the fallback orchestrator         *)
(* (AIService._generate_with_fallbacks), the two provider clients with     *)
(* their lazily built network clients, the streaming pipeline              *)
(* (provider.generate_stream -> AIService.generate_stream ->               *)
(* event_generator -> consumer) and the /generate route around them.       *)
(*                                                                         *)
(* One request is followed from the route to its end.  Python coroutines   *)
(* and async generators are modelled by the position `pc` of the running   *)
(* coroutine chain and by the suspension points gs_pc / eg_pc of the two   *)
(* generators.  Strings that the code trims are sequences of characters.   *)
(***************************************************************************)
EXTENDS Integers, Sequences, FiniteSets, TLC

VARIABLES
    model_type,     \* request: the logical model type
    params,         \* request: the caller's params dict
    is_streaming,   \* request: the stream flag
    config,         \* the model configuration table (DEFAULT_MODEL_CONFIG or a test's)
    api_key,        \* settings: provider name -> API credential ("" = not configured)
    token,          \* request: the bearer token of the Authorization header
    stub,           \* the payloads of a stand-in service given to event_generator
    pc,             \* position of the running coroutine chain
    idx,            \* _generate_with_fallbacks: index of the step being tried
    last_error,     \* _generate_with_fallbacks: local last_error
    raised,         \* the exception _generate_with_fallbacks raised
    result,         \* the text _generate_with_fallbacks returned (non-streaming)
    log,            \* history of the orchestrator: steps tried, invoked, failed, succeeded
    client,         \* provider name -> _client (0 = None, else a network client id)
    created,        \* number of network clients constructed so far
    closed_clients, \* ids of the network clients that were closed
    stream,         \* the provider stream handle returned in streaming mode
    yielded,        \* fragments the provider's generate_stream has yielded
    gs_pc,          \* AIService.generate_stream: position of the generator
    eg_pc,          \* event_generator: position of the generator
    frames,         \* frames delivered to the consumer of event_generator
    consumer,       \* "active" while it pulls; "cancelled" / "closed" once it closed
                    \* the stream before / after it got End
    svc_closed,     \* AIService._closed
    close_calls,    \* number of calls of AIService.close
    response        \* the route's non-streaming HTTP response

vars == <<model_type, params, is_streaming, config, api_key, token, stub, pc, idx, last_error,
          raised, result, log, client, created, closed_clients, stream, yielded,
          gs_pc, eg_pc, frames, consumer, svc_closed, close_calls, response>>

----------------------------------------------------------------------------
(* Bounds of the model *)

MaxFallbacks == 2       \* longest fallback list of a plan
MaxFragments == 2       \* most deltas a vendor stream sends
MaxLen == 3             \* longest content text given to the prompt builder
MaxOps == 4             \* longest sequence of uses and closes of the providers
MaxPayloads == 2        \* most payloads a stand-in service yields
NumRequests == 2        \* requests in flight at the same time

----------------------------------------------------------------------------
(* Strings *)

\* characters str.strip() removes (a sample of them)
Whitespace == {" ", "\n"}

RECURSIVE LStrip(_)
LStrip(s) == IF s # <<>> /\ Head(s) \in Whitespace THEN LStrip(Tail(s)) ELSE s

RECURSIVE RStrip(_)
RStrip(s) ==
    IF s # <<>> /\ s[Len(s)] \in Whitespace THEN RStrip(SubSeq(s, 1, Len(s) - 1)) ELSE s

\* str.strip()
Strip(s) == RStrip(LStrip(s))

\* dict.get(key, default)
Get(d, key, default) == IF key \in DOMAIN d THEN d[key] ELSE default

\* variant: the left operand wins on a key collision
Merge_LeftWins(a, b) ==
    [k \in DOMAIN a \cup DOMAIN b |-> IF k \in DOMAIN a THEN a[k] ELSE b[k]]

\* {**a, **b}: the right operand wins on a key collision
Merge(a, b) == [k \in DOMAIN a \cup DOMAIN b |-> IF k \in DOMAIN b THEN b[k] ELSE a[k]]

\* {k: v for k, v in d.items() if k not in keys}
Without(d, keys) == [k \in DOMAIN d \ keys |-> d[k]]

EmptyDict == [k \in {} |-> ""]

----------------------------------------------------------------------------
(* Configuration *)

StepParams == ("temperature" :> "0.7") @@ ("max_tokens" :> "1000")

OpenAIStep ==
    [provider |-> "openai", model |-> "gpt-3.5-turbo", params |-> StepParams]

AnthropicStep ==
    [provider |-> "anthropic", model |-> "claude-3-haiku-20240307", params |-> StepParams]

\* an anthropic step whose params leave max_tokens to the provider
AnthropicPlainStep ==
    [provider |-> "anthropic", model |-> "claude-3-haiku-20240307",
     params |-> ("temperature" :> "0.7")]

\* a step naming a provider that AIService.providers does not hold
MockStep ==
    [provider |-> "mock", model |-> "test-model", params |-> StepParams]

DefaultPlan == [primary |-> OpenAIStep, fallbacks |-> <<AnthropicStep>>]

DEFAULT_MODEL_CONFIG == [t \in {"chat", "completion"} |-> DefaultPlan]

Steps == {OpenAIStep, AnthropicStep, AnthropicPlainStep, MockStep}

SeqsUpTo(S, n) == UNION {[1..k -> S] : k \in 0..n}

Plans == {[primary |-> s, fallbacks |-> fs] : s \in Steps, fs \in SeqsUpTo(Steps, MaxFallbacks)}

\* the configuration tables a request may run under
Configs == {[t \in {"chat", "completion"} |-> p] : p \in Plans}

ModelTypes == {"chat", "completion", "summary"}

\* AIService.providers
Providers == {"openai", "anthropic"}

ApiKeys == [Providers -> {"", "sk-key"}]

ParamsSet ==
    { EmptyDict,
      "content" :> <<>>,
      "content" :> <<" ">>,
      "content" :> <<"x">>,
      ("content" :> <<" ", "x", " ">>) @@ ("instruction" :> <<" ", "i">>)
          @@ ("tone" :> "formal") @@ ("temperature" :> "0.2"),
      ("content" :> <<"x">>) @@ ("instruction" :> <<" ">>)
          @@ ("model" :> "gpt-4") @@ ("prompt" :> <<"p">>) }

----------------------------------------------------------------------------
(* Errors *)

\* An exception object: its kind, the provider it names and the step of the
\* attempt list in which it was raised (0 = outside of the walk).
Error(kind, who, at) == [kind |-> kind, who |-> who, at |-> at]

NoError == Error("None", "", 0)

\* Exception("No providers available")
NoProvidersError == Error("no_providers", "", 0)

\* what the vendor SDK call can raise
VendorErrors == {"APIError", "APIConnectionError"}

\* text a vendor can answer with
Texts == {"A", "B"}

\* what a vendor's create() can return: a response without choices / content
\* blocks, one whose content is None, one whose content is "", or one with text
VendorResponses == {"no_choices", "None", ""} \cup Texts

\* variant: only a missing content is refused
ResponseUsable_NotNone(r) == r \notin {"no_choices", "None"}

\* `not response.choices or not response.choices[0].message.content` (openai),
\* `not message.content or not message.content[0].text` (anthropic), negated
ResponseUsable(r) == r \notin {"no_choices", "None", ""}

----------------------------------------------------------------------------
(* AIService: pure helpers *)

\* variant: the registry holds the anthropic provider only
ProviderRegistered_AnthropicOnly(name) == name = "anthropic"

\* AIService._get_provider: the name must be a key of self.providers
ProviderRegistered(name) == name \in Providers

\* variant: the lookup result is not checked
HasModelConfig_Unchecked(cfg, t) == TRUE

\* AIService._get_model_config: DEFAULT_MODEL_CONFIG.get(model_type), `if not config`
HasModelConfig(cfg, t) == t \in DOMAIN cfg

\* PROMPT_TEMPLATE.format(content=..., instruction=...): the template text
\* (three fixed segments) with the two values substituted
Format(content, instruction) ==
    <<"TEMPLATE_HEAD">> \o content \o <<"TEMPLATE_MID">> \o instruction \o <<"TEMPLATE_TAIL">>

DefaultInstruction == <<"Please process the following text">>

\* AIService._get_prompt: the stripped content, empty = ValueError
PromptContent(p) == Strip(Get(p, "content", <<>>))

\* variant: the emptiness test is made on the untrimmed text
PromptFails_Untrimmed(p) == Get(p, "content", <<>>) = <<>>

PromptFails(p) == PromptContent(p) = <<>>

PromptInstruction(p) == Strip(Get(p, "instruction", DefaultInstruction))

GetPrompt(p) == Format(PromptContent(p), PromptInstruction(p))

\* variant: every step is given its own configured model
ProviderParams_StepModel(step, p) ==
    Merge(Merge(step.params, Without(p, {"content", "instruction", "model"})),
          ("prompt" :> GetPrompt(p)) @@ ("model" :> step.model))

\* the provider_params dict of one step (ai_service.py 143-148, 168-173)
ProviderParams(step, p) ==
    Merge(Merge(step.params, Without(p, {"content", "instruction"})),
          ("prompt" :> GetPrompt(p)) @@ ("model" :> Get(p, "model", step.model)))

\* variant: the fallbacks are walked before the primary
AttemptList_FallbacksFirst(plan) == plan.fallbacks \o <<plan.primary>>

\* the attempt list: primary, then the fallbacks in configured order
AttemptList(plan) == <<plan.primary>> \o plan.fallbacks

CurrentPlan == config[model_type]

CurrentStep == AttemptList(CurrentPlan)[idx]

\* the fallback loop has a further step after step i
HasNextStep(i) == i < Len(AttemptList(CurrentPlan))

\* variant: the first error is kept instead of the latest
RecordError_KeepsFirst(prev, e) == IF prev = NoError THEN e ELSE prev

\* `last_error = e` in both except blocks
RecordError(prev, e) == e

\* `raise last_error or Exception("No providers available")`
FinalError(e) == IF e = NoError THEN NoProvidersError ELSE e

\* the synchronous failure of a step before its provider is invoked:
\* _get_provider, then _get_prompt
SetupError(step, p, i) ==
    IF ~ProviderRegistered(step.provider) THEN Error("unknown_provider", step.provider, i)
    ELSE IF PromptFails(p) THEN Error("no_content", "", i)
    ELSE NoError

Ev(ev, i, data) == [ev |-> ev, idx |-> i, data |-> data]

\* variant: a failed step is tried a second time before the walk moves on
StepFailed_RetriesOnce(e, lg) ==
    /\ last_error' = RecordError(last_error, e)
    /\ log' = Append(lg, Ev("fail", idx, e))
    /\ IF last_error.at # idx \/ HasNextStep(idx)
       THEN /\ idx' = (IF last_error.at # idx THEN idx ELSE idx + 1)
            /\ pc' = "orch_try"
            /\ raised' = raised
       ELSE /\ idx' = idx
            /\ pc' = "orch_raised"
            /\ raised' = FinalError(RecordError(last_error, e))

\* variant: an unknown provider is treated as fatal and ends the walk
StepFailed_UnknownProviderAborts(e, lg) ==
    /\ last_error' = RecordError(last_error, e)
    /\ log' = Append(lg, Ev("fail", idx, e))
    /\ IF HasNextStep(idx) /\ e.kind # "unknown_provider"
       THEN /\ idx' = idx + 1
            /\ pc' = "orch_try"
            /\ raised' = raised
       ELSE /\ idx' = idx
            /\ pc' = "orch_raised"
            /\ raised' = FinalError(RecordError(last_error, e))

\* variant: after the last step has failed the walk starts over with the primary
StepFailed_StartsOver(e, lg) ==
    /\ last_error' = RecordError(last_error, e)
    /\ log' = Append(lg, Ev("fail", idx, e))
    /\ idx' = (IF HasNextStep(idx) THEN idx + 1 ELSE 1)
    /\ pc' = "orch_try"
    /\ raised' = raised

\* The except blocks of the walk (ai_service.py 155-159, 180-187) for the failure e
\* of step idx: remember it, go on with the next step, or raise after the last one.
StepFailed(e, lg) ==
    /\ last_error' = RecordError(last_error, e)
    /\ log' = Append(lg, Ev("fail", idx, e))
    /\ IF HasNextStep(idx)
       THEN /\ idx' = idx + 1
            /\ pc' = "orch_try"
            /\ raised' = raised
       ELSE /\ idx' = idx
            /\ pc' = "orch_raised"
            /\ raised' = FinalError(RecordError(last_error, e))

\* variant: the value is kept but the walk falls through to the fallback loop
StepSucceeded_FallsThrough(value, lg) ==
    /\ log' = Append(lg, Ev("ok", idx, value))
    /\ IF HasNextStep(idx)
       THEN /\ idx' = idx + 1
            /\ pc' = "orch_try"
       ELSE /\ idx' = idx
            /\ pc' = "orch_returned"
    /\ UNCHANGED <<last_error, raised>>

\* variant: an error remembered from an earlier step is raised after a success
StepSucceeded_RaisesEarlier(value, lg) ==
    /\ log' = Append(lg, Ev("ok", idx, value))
    /\ IF last_error = NoError
       THEN /\ pc' = "orch_returned"
            /\ raised' = raised
       ELSE /\ pc' = "orch_raised"
            /\ raised' = last_error
    /\ UNCHANGED <<idx, last_error>>

\* The return statements of the walk (ai_service.py 150-153, 175-178): the value of
\* the first step that succeeds is returned at once.
StepSucceeded(value, lg) ==
    /\ log' = Append(lg, Ev("ok", idx, value))
    /\ pc' = "orch_returned"
    /\ UNCHANGED <<idx, last_error, raised>>

----------------------------------------------------------------------------
(* Provider clients *)

\* variant: the credential is not looked at
ClientAvailable_IgnoresKey(p) == TRUE

\* the `client` property: a network client exists or can be constructed
ClientAvailable(p) == client[p] # 0 \/ api_key[p] # ""

\* variant: one network client is constructed once and handed out ever after
AcquireClient_SharedClient(p) ==
    IF client[p] = 0
    THEN /\ client' = [client EXCEPT ![p] = 1]
         /\ created' = 1
    ELSE UNCHANGED <<client, created>>

\* the `client` property, lazy construction on first use
AcquireClient(p) ==
    IF client[p] = 0
    THEN /\ client' = [client EXCEPT ![p] = created + 1]
         /\ created' = created + 1
    ELSE UNCHANGED <<client, created>>

\* how the network client's own close() can end
CloseOutcomes == {"closed", "raised"}

\* provider.close(): `if self._client is not None: await self._client.close()`,
\* the calls of the network client's close() it makes
CloseCall(p, o) ==
    IF client[p] = 0 THEN <<>> ELSE <<[id |-> client[p], raised |-> (o = "raised")]>>

\* variant: the reference is kept after the network client was closed
ClientAfterClose_KeepsReference(p, o) == client[p]

\* provider.close(): `self._client = None`, skipped when close() raised
ClientAfterClose(p, o) == IF o = "closed" THEN 0 ELSE client[p]

\* self.providers.values(): the registered providers in dict order
ProviderOrder == <<"openai", "anthropic">>

\* provider p holds a network client whose close() raises
CloseRaises(p, o) == client[p] # 0 /\ o[p] = "raised"

\* variant: no try block around provider.close(): the first exception ends the
\* loop and leaves AIService.close
CloseResult_Unprotected(o) ==
    IF \E i \in DOMAIN ProviderOrder : CloseRaises(ProviderOrder[i], o)
    THEN LET first == CHOOSE i \in DOMAIN ProviderOrder :
                        /\ CloseRaises(ProviderOrder[i], o)
                        /\ \A j \in 1..(i - 1) : ~CloseRaises(ProviderOrder[j], o)
         IN [called |-> SubSeq(ProviderOrder, 1, first), raises |-> TRUE]
    ELSE [called |-> ProviderOrder, raises |-> FALSE]

\* ai_service.py 226-231: the loop over the providers, each provider.close() inside
\* `try ... except Exception` (logged): the providers whose close() is called, and
\* whether an exception leaves AIService.close
CloseResult(o) == [called |-> ProviderOrder, raises |-> FALSE]

\* the providers whose close() a call of AIService.close calls
ProviderCloseCalls(o) == IF svc_closed THEN <<>> ELSE CloseResult(o).called

\* the calls of the network clients' close() that closing the providers ps makes
RECURSIVE CloseCallsOf(_, _)
CloseCallsOf(ps, o) ==
    IF ps = <<>> THEN <<>>
    ELSE CloseCall(Head(ps), o[Head(ps)]) \o CloseCallsOf(Tail(ps), o)

\* AIService.close when the network clients' close() end as o says: nothing when
\* _closed; else provider.close() of every provider in dict order, then
\* _closed = True
ServiceCloseWith(o) ==
    /\ close_calls' = close_calls + 1
    /\ IF svc_closed
       THEN UNCHANGED <<client, closed_clients, svc_closed>>
       ELSE /\ svc_closed' = ~CloseResult(o).raises
            /\ closed_clients' = closed_clients \o CloseCallsOf(CloseResult(o).called, o)
            /\ client' = [p \in Providers |->
                            IF \E i \in DOMAIN CloseResult(o).called :
                                    CloseResult(o).called[i] = p
                            THEN ClientAfterClose(p, o[p])
                            ELSE client[p]]

\* AIService.close, whatever the network clients' close() do
ServiceClose == \E o \in [Providers -> CloseOutcomes] : ServiceCloseWith(o)

----------------------------------------------------------------------------
(* Initial state: one request, not yet routed *)

NoStream == [idx |-> 0, provider |-> "", state |-> "none", sent |-> 0, deltas |-> <<>>]

\* os.getenv("API_TOKEN", "your-secure-token-here")
API_TOKEN == "your-secure-token-here"

\* bearer tokens a request may carry
Tokens == {API_TOKEN, "wrong-token", ""}

\* no stand-in: event_generator is given the AIService of the route
NoStub == [payloads |-> <<>>, raises |-> FALSE]

NoResponse == [status |-> 0, body |-> EmptyDict, detail |-> NoError]

Init ==
    /\ model_type \in ModelTypes
    /\ params \in ParamsSet
    /\ is_streaming \in BOOLEAN
    /\ config \in Configs
    /\ api_key \in ApiKeys
    /\ token \in Tokens
    /\ stub = NoStub
    /\ pc = "auth"
    /\ idx = 0
    /\ last_error = NoError
    /\ raised = NoError
    /\ result = ""
    /\ log = <<>>
    /\ client = [p \in Providers |-> 0]
    /\ created = 0
    /\ closed_clients = <<>>
    /\ stream = NoStream
    /\ yielded = <<>>
    /\ gs_pc = "none"
    /\ eg_pc = "none"
    /\ frames = <<>>
    /\ consumer = "active"
    /\ svc_closed = FALSE
    /\ close_calls = 0
    /\ response = NoResponse

inputs == <<model_type, params, is_streaming, config, api_key, token, stub>>
providerVars == <<client, created, closed_clients>>
closeVars == <<svc_closed, close_calls>>
orchVars == <<idx, last_error, raised, result, log>>
streamVars == <<stream, yielded, gs_pc, eg_pc, frames, consumer>>

----------------------------------------------------------------------------
(* The route, non-streaming or streaming (routers/ai.py generate) *)

\* variant: any non-empty token is accepted
TokenValid_NonEmpty(t) == t # ""

\* verify_token: `if token != API_TOKEN: raise HTTPException(401, ...)`
TokenValid(t) == t = API_TOKEN

\* the dependency verify_token, resolved before the handler body runs
VerifyToken ==
    /\ pc = "auth"
    /\ IF TokenValid(token)
       THEN /\ pc' = "route"
            /\ UNCHANGED response
       ELSE /\ pc' = "done"
            /\ response' = [response EXCEPT !.status = 401,
                                            !.detail = Error("invalid_credentials", "", 0)]
    /\ UNCHANGED <<inputs, orchVars, providerVars, closeVars, streamVars>>

\* ai_service = AIService(); then StreamingResponse(event_generator(...)) or
\* await ai_service.generate_response(...)
RouteGenerate ==
    /\ pc = "route"
    /\ IF is_streaming
       THEN /\ pc' = "suspended"
            /\ eg_pc' = "created"
            /\ gs_pc' = "created"
       ELSE /\ pc' = "orch_config"
            /\ UNCHANGED <<eg_pc, gs_pc>>
    /\ UNCHANGED <<inputs, orchVars, providerVars, closeVars, stream, yielded, frames,
                   consumer, response>>

----------------------------------------------------------------------------
(* AIService._generate_with_fallbacks *)

\* config = self._get_model_config(model_type); last_error = None
OrchGetConfig ==
    /\ pc = "orch_config"
    /\ IF HasModelConfig(config, model_type)
       THEN /\ idx' = 1
            /\ pc' = "orch_try"
            /\ raised' = raised
       ELSE /\ idx' = idx
            /\ pc' = "orch_raised"
            /\ raised' = Error("no_config", model_type, 0)
    /\ last_error' = NoError
    /\ UNCHANGED <<inputs, result, log, providerVars, closeVars, streamVars, response>>

\* One try block of the walk up to the provider call: resolve the provider, build
\* the prompt, merge the params, then call generate_stream (which only creates the
\* async generator) or start awaiting generate.
OrchTryStep ==
    /\ pc = "orch_try"
    /\ LET step == CurrentStep
           e == SetupError(step, params, idx)
           tried == Append(log, Ev("try", idx, step.provider))
           called == Append(tried, Ev("invoke", idx, ProviderParams(step, params)))
       IN IF e # NoError
          THEN /\ StepFailed(e, tried)
               /\ UNCHANGED <<result, stream>>
          ELSE IF is_streaming
          THEN /\ stream' = [idx |-> idx, provider |-> step.provider,
                             state |-> "unstarted", sent |-> 0, deltas |-> <<>>]
               /\ StepSucceeded("handle", called)
               /\ UNCHANGED result
          ELSE /\ log' = called
               /\ pc' = "generate"
               /\ UNCHANGED <<idx, last_error, raised, result, stream>>
    /\ UNCHANGED <<inputs, providerVars, closeVars, yielded, gs_pc, eg_pc, frames,
                   consumer, response>>

----------------------------------------------------------------------------
(* provider.generate (OpenAIService / AnthropicService) *)

\* the keyword arguments of the vendor's create(): the anthropic provider writes
\* max_tokens=1000 next to **kwargs, so a max_tokens among the kwargs is a
\* TypeError (multiple values for keyword argument) before any request is made
CreateRaisesTypeError(p, kwargs) == p = "anthropic" /\ "max_tokens" \in DOMAIN kwargs

\* async with self.get_client(): the lazy client, or ValueError without a key;
\* then the vendor call is made and awaited
ProviderGenerate ==
    /\ pc = "generate"
    /\ LET p == CurrentStep.provider
       IN IF ClientAvailable(p)
          THEN /\ AcquireClient(p)
               /\ IF CreateRaisesTypeError(p, ProviderParams(CurrentStep, params))
                  THEN /\ StepFailed(Error("TypeError", p, idx), log)
                       /\ UNCHANGED result
                  ELSE /\ pc' = "vendor_call"
                       /\ UNCHANGED orchVars
          ELSE /\ StepFailed(Error("no_api_key", p, idx), log)
               /\ UNCHANGED <<result, client, created>>
    /\ UNCHANGED <<inputs, closed_clients, closeVars, streamVars, response>>

\* the vendor call raises one of the SDK's errors, which generate logs and re-raises
VendorFails ==
    /\ pc = "vendor_call"
    /\ \E k \in VendorErrors : StepFailed(Error(k, CurrentStep.provider, idx), log)
    /\ UNCHANGED <<inputs, result, providerVars, closeVars, streamVars, response>>

\* the vendor answers without choices / content / text: ValueError
VendorAnswersEmpty ==
    /\ pc = "vendor_call"
    /\ \E r \in VendorResponses :
        /\ ~ResponseUsable(r)
        /\ StepFailed(Error("empty_response", CurrentStep.provider, idx), log)
    /\ UNCHANGED <<inputs, result, providerVars, closeVars, streamVars, response>>

\* the vendor answers with text: generate returns it and the walk returns it
VendorAnswers ==
    /\ pc = "vendor_call"
    /\ \E t \in VendorResponses :
        /\ ResponseUsable(t)
        /\ result' = t
        /\ StepSucceeded(t, log)
    /\ UNCHANGED <<inputs, providerVars, closeVars, streamVars, response>>

----------------------------------------------------------------------------
(* AIService.generate_response and the non-streaming end of the route *)

\* variant: the metadata describe the step that produced the text
ResponseDict_ReportsServingStep(text) ==
    [content |-> text,
     provider |-> CurrentStep.provider,
     model |-> Get(params, "model", CurrentStep.model),
     fallback_used |-> idx > 1]

\* ai_service.py 258-269: the result dict
ResponseDict(text) ==
    [content |-> text,
     provider |-> CurrentPlan.primary.provider,
     model |-> Get(params, "model", CurrentPlan.primary.model),
     fallback_used |-> FALSE]

GenerateResponseReturns ==
    /\ pc = "orch_returned"
    /\ ~is_streaming
    /\ response' = [response EXCEPT !.body = ResponseDict(result)]
    /\ pc' = "route_ok"
    /\ UNCHANGED <<inputs, orchVars, providerVars, closeVars, streamVars>>

\* ai_service.py 271-273: log and re-raise
GenerateResponseRaises ==
    /\ pc = "orch_raised"
    /\ ~is_streaming
    /\ pc' = "route_except"
    /\ UNCHANGED <<inputs, orchVars, providerVars, closeVars, streamVars, response>>

\* routers/ai.py 103-104: await ai_service.close(); return {"response": response}
RouteReturns ==
    /\ pc = "route_ok"
    /\ ServiceClose
    /\ response' = [response EXCEPT !.status = 200]
    /\ pc' = "done"
    /\ UNCHANGED <<inputs, orchVars, created, streamVars>>

\* variant: the except block answers 500 without closing the service
RouteFails_NoClose ==
    /\ pc = "route_except"
    /\ response' = [response EXCEPT !.status = 500, !.detail = raised]
    /\ pc' = "done"
    /\ UNCHANGED <<inputs, orchVars, providerVars, closeVars, streamVars>>

\* routers/ai.py 106-110: close, then HTTPException(500, detail=str(e))
RouteFails ==
    /\ pc = "route_except"
    /\ ServiceClose
    /\ response' = [response EXCEPT !.status = 500, !.detail = raised]
    /\ pc' = "done"
    /\ UNCHANGED <<inputs, orchVars, created, streamVars>>

----------------------------------------------------------------------------
(* Frames and payloads of the streaming pipeline *)

\* json.dumps(obj): a JSON text; json.loads gives the object back only for a
\* text that is well-formed JSON
JsonDumps(obj) == [wellformed |-> TRUE, obj |-> obj]

JsonValid(text) == text.wellformed

JsonLoads(text) == text.obj

\* f"Error in streaming response: {str(e)}"
StreamErrorMsg(e) == <<"Error in streaming response: ", e.kind, e.who>>

\* variant: the payload is encoded a second time
DataFrame_Reencoded(chunk) == [event |-> "message", data |-> JsonDumps(chunk)]

\* f"data: {chunk}\n\n"
DataFrame(chunk) == [event |-> "message", data |-> chunk]

\* variant: the error payload is sent as a plain data frame
ErrorFrame_Plain(chunk_data) == [event |-> "message", data |-> JsonDumps(chunk_data)]

\* f"event: error\ndata: {json.dumps(chunk_data)}\n\n"
ErrorFrame(chunk_data) == [event |-> "error", data |-> JsonDumps(chunk_data)]

\* "event: end\ndata: {}\n\n"
EndFrame == [event |-> "end", data |-> JsonDumps(EmptyDict)]

\* what a vendor stream can send: a content event with text, with empty text or
\* without text, or an event of another type
Deltas ==
    {[content_event |-> TRUE, text |-> t] : t \in {"a", "b", "", "None"}}
        \cup {[content_event |-> FALSE, text |-> "None"]}

\* the filter of the provider's generate_stream:
\* openai:    chunk.choices and chunk.choices[0].delta.content is not None
\* anthropic: chunk.type == "content_block_delta" and chunk.delta.text (truthy)
Forwards(p, d) ==
    IF p = "openai"
    THEN d.content_event /\ d.text # "None"
    ELSE d.content_event /\ d.text \notin {"None", ""}

\* event_generator suspends at a yield with the frame delivered to the consumer
EgYield(frame, at) ==
    /\ frames' = Append(frames, frame)
    /\ eg_pc' = at
    /\ pc' = "suspended"

\* variant: the payload is forwarded without being parsed
EgOnPayload_ForwardsUnparsed(chunk) ==
    IF JsonValid(chunk) /\ "error" \in DOMAIN JsonLoads(chunk)
    THEN EgYield(ErrorFrame(JsonLoads(chunk)), "susp_data")
    ELSE EgYield(DataFrame(chunk), "susp_data")

\* routers/ai.py 47-56: the body of the async for, for one payload of the service.
\* AIService.generate_stream only yields json.dumps texts, so the JSONDecodeError
\* branch (continue: pull the next payload) is never taken with this service.
EgOnPayload(chunk) ==
    IF ~JsonValid(chunk)
    THEN /\ pc' = "gs_resume"
         /\ UNCHANGED <<frames, eg_pc>>
    ELSE IF "error" \in DOMAIN JsonLoads(chunk)
    THEN EgYield(ErrorFrame(JsonLoads(chunk)), "susp_data")
    ELSE EgYield(DataFrame(chunk), "susp_data")

\* variant: End is yielded at the end of the try block, not in a finally block,
\* so a stream that reported an error ends without it
EgFinally_NotAfterError ==
    IF \E i \in DOMAIN frames : frames[i].event = "error"
    THEN /\ eg_pc' = "susp_end"
         /\ pc' = "suspended"
         /\ UNCHANGED frames
    ELSE EgYield(EndFrame, "susp_end")

\* routers/ai.py 62-63: the async for is over, the finally block yields End
EgFinally == EgYield(EndFrame, "susp_end")

\* variant: the error is caught inside the loop, which then goes on pulling
GsCatch_KeepsPulling(e) ==
    /\ gs_pc' = "susp_chunk"
    /\ EgOnPayload(JsonDumps("error" :> StreamErrorMsg(e)))

\* variant: the error is logged but not reported, the stream just ends
GsCatch_Silent(e) ==
    /\ gs_pc' = "finished"
    /\ EgYield(EndFrame, "susp_end")

\* ai_service.py 216-219: the except block of generate_stream yields the error payload
GsCatch(e) ==
    /\ gs_pc' = "susp_error"
    /\ EgOnPayload(JsonDumps("error" :> StreamErrorMsg(e)))

\* ai_service.py 213-214: one fragment is yielded as a chunk payload
GsYieldChunk(fragment) ==
    /\ gs_pc' = "susp_chunk"
    /\ EgOnPayload(JsonDumps("chunk" :> fragment))

----------------------------------------------------------------------------
(* The consumer of the streamed response *)

\* the consumer asks for the next frame: event_generator runs on (first entry
\* into its try block, or the next turn of its async for)
ConsumerPull ==
    /\ pc = "suspended"
    /\ consumer = "active"
    /\ eg_pc \in {"created", "susp_data"}
    /\ eg_pc' = "running"
    /\ pc' = "gs_resume"
    /\ UNCHANGED <<inputs, orchVars, providerVars, closeVars, stream, yielded, gs_pc,
                   frames, consumer, response>>

\* the consumer asks for a frame after End: routers/ai.py 64-65 closes the service
\* and the generator finishes
ConsumerPullAfterEnd ==
    /\ pc = "suspended"
    /\ consumer = "active"
    /\ eg_pc = "susp_end"
    /\ ServiceClose
    /\ eg_pc' = "finished"
    /\ pc' = "done"
    /\ UNCHANGED <<inputs, orchVars, created, stream, yielded, gs_pc, frames, consumer,
                   response>>

\* The consumer stops and the generator is closed (aclose) while suspended at a
\* yield of its try block: GeneratorExit passes the except clauses, the finally
\* block yields End, which aclose answers with RuntimeError; the frame is not
\* delivered and the generator stays suspended at that yield.
ConsumerCancel ==
    /\ pc = "suspended"
    /\ consumer = "active"
    /\ eg_pc = "susp_data"
    /\ consumer' = "cancelled"
    /\ eg_pc' = "susp_end"
    /\ UNCHANGED <<inputs, orchVars, providerVars, closeVars, stream, yielded, gs_pc,
                   frames, pc, response>>

\* The generator is closed while suspended at the yield of End (by the consumer
\* that got End, or by the finalizer of a generator left behind by ConsumerCancel):
\* GeneratorExit is raised at routers/ai.py 63 and leaves the finally block.
CloseAtEnd ==
    /\ pc = "suspended"
    /\ eg_pc = "susp_end"
    /\ consumer' = (IF consumer = "active" THEN "closed" ELSE consumer)
    /\ eg_pc' = "finished"
    /\ pc' = "done"
    /\ UNCHANGED <<inputs, orchVars, providerVars, closeVars, stream, yielded, gs_pc,
                   frames, response>>

----------------------------------------------------------------------------
(* AIService.generate_stream *)

\* first resumption: the try block awaits _generate_with_fallbacks
GsStart ==
    /\ pc = "gs_resume"
    /\ gs_pc = "created"
    /\ gs_pc' = "running"
    /\ pc' = "orch_config"
    /\ UNCHANGED <<inputs, orchVars, providerVars, closeVars, stream, yielded, eg_pc,
                   frames, consumer, response>>

\* resumed after a chunk: the async for asks the provider stream for the next one
GsNext ==
    /\ pc = "gs_resume"
    /\ gs_pc = "susp_chunk"
    /\ gs_pc' = "running"
    /\ pc' = "stream_next"
    /\ UNCHANGED <<inputs, orchVars, providerVars, closeVars, stream, yielded, eg_pc,
                   frames, consumer, response>>

\* resumed after the error payload: the generator returns, event_generator's
\* async for ends and its finally block runs
GsReturnsAfterError ==
    /\ pc = "gs_resume"
    /\ gs_pc = "susp_error"
    /\ gs_pc' = "finished"
    /\ EgFinally
    /\ UNCHANGED <<inputs, orchVars, providerVars, closeVars, stream, yielded, consumer,
                   response>>

\* _generate_with_fallbacks returned the stream handle: start iterating it
GsIterate ==
    /\ pc = "orch_returned"
    /\ is_streaming
    /\ pc' = "stream_start"
    /\ UNCHANGED <<inputs, orchVars, providerVars, closeVars, streamVars, response>>

\* variant: the walk's exception leaves generate_stream and is reported by the
\* except block of event_generator instead
GsOrchRaised_Propagates ==
    /\ pc = "orch_raised"
    /\ is_streaming
    /\ gs_pc' = "finished"
    /\ EgYield(ErrorFrame("error" :> <<"Error in event generator: ", raised.kind, raised.who>>),
               "susp_data")
    /\ UNCHANGED <<inputs, orchVars, providerVars, closeVars, stream, yielded, consumer,
                   response>>

\* _generate_with_fallbacks raised: the except block reports it in the stream
GsOrchRaised ==
    /\ pc = "orch_raised"
    /\ is_streaming
    /\ GsCatch(raised)
    /\ UNCHANGED <<inputs, orchVars, providerVars, closeVars, stream, yielded, consumer,
                   response>>

----------------------------------------------------------------------------
(* provider.generate_stream: the body of the async generator *)

\* first __anext__: async with self.get_client() (ValueError without a key),
\* then the vendor's create(stream=True) is made and awaited
ProviderStreamStart ==
    /\ pc = "stream_start"
    /\ LET p == stream.provider
       IN IF ClientAvailable(p)
          THEN /\ AcquireClient(p)
               /\ IF CreateRaisesTypeError(p, ProviderParams(AttemptList(CurrentPlan)[stream.idx], params))
                  THEN /\ stream' = [stream EXCEPT !.state = "failed"]
                       /\ GsCatch(Error("TypeError", p, stream.idx))
                  ELSE /\ stream' = [stream EXCEPT !.state = "creating"]
                       /\ pc' = "stream_create"
                       /\ UNCHANGED <<gs_pc, eg_pc, frames>>
          ELSE /\ stream' = [stream EXCEPT !.state = "failed"]
               /\ GsCatch(Error("no_api_key", p, stream.idx))
               /\ UNCHANGED <<client, created>>
    /\ UNCHANGED <<inputs, orchVars, closed_clients, closeVars, yielded, consumer,
                   response>>

\* create(stream=True) raises
VendorStreamRefused ==
    /\ pc = "stream_create"
    /\ stream' = [stream EXCEPT !.state = "failed"]
    /\ \E k \in VendorErrors : GsCatch(Error(k, stream.provider, stream.idx))
    /\ UNCHANGED <<inputs, orchVars, providerVars, closeVars, yielded, consumer, response>>

\* create(stream=True) returns the vendor stream
VendorStreamOpens ==
    /\ pc = "stream_create"
    /\ stream' = [stream EXCEPT !.state = "open"]
    /\ pc' = "stream_next"
    /\ UNCHANGED <<inputs, orchVars, providerVars, closeVars, yielded, gs_pc, eg_pc,
                   frames, consumer, response>>

\* the vendor stream sends a delta: yielded as a fragment if the filter forwards it
VendorDelta ==
    /\ pc = "stream_next"
    /\ stream.sent < MaxFragments
    /\ \E d \in Deltas :
        /\ stream' = [stream EXCEPT !.sent = stream.sent + 1, !.deltas = Append(@, d)]
        /\ IF Forwards(stream.provider, d)
           THEN /\ yielded' = Append(yielded, d.text)
                /\ GsYieldChunk(d.text)
           ELSE UNCHANGED <<yielded, gs_pc, eg_pc, frames, pc>>
    /\ UNCHANGED <<inputs, orchVars, providerVars, closeVars, consumer, response>>

\* the vendor stream ends: the provider generator returns, generate_stream's async
\* for ends and it returns, event_generator's async for ends and its finally runs
VendorStreamEnds ==
    /\ pc = "stream_next"
    /\ stream' = [stream EXCEPT !.state = "done"]
    /\ gs_pc' = "finished"
    /\ EgFinally
    /\ UNCHANGED <<inputs, orchVars, providerVars, closeVars, yielded, consumer, response>>

\* the vendor stream raises between two deltas
VendorStreamBreaks ==
    /\ pc = "stream_next"
    /\ stream' = [stream EXCEPT !.state = "failed"]
    /\ \E k \in VendorErrors : GsCatch(Error(k, stream.provider, stream.idx))
    /\ UNCHANGED <<inputs, orchVars, providerVars, closeVars, yielded, consumer, response>>

----------------------------------------------------------------------------

Next ==
    \/ VerifyToken
    \/ RouteGenerate
    \/ OrchGetConfig
    \/ OrchTryStep
    \/ ProviderGenerate
    \/ VendorFails
    \/ VendorAnswersEmpty
    \/ VendorAnswers
    \/ GenerateResponseReturns
    \/ GenerateResponseRaises
    \/ RouteReturns
    \/ RouteFails
    \/ ConsumerPull
    \/ ConsumerPullAfterEnd
    \/ ConsumerCancel
    \/ CloseAtEnd
    \/ GsStart
    \/ GsNext
    \/ GsReturnsAfterError
    \/ GsIterate
    \/ GsOrchRaised
    \/ ProviderStreamStart
    \/ VendorStreamRefused
    \/ VendorStreamOpens
    \/ VendorDelta
    \/ VendorStreamEnds
    \/ VendorStreamBreaks

----------------------------------------------------------------------------
(* The prompt builder on its own (AIService._get_prompt) *)

\* the caller dicts given to the prompt builder: content absent or any text of
\* up to MaxLen characters, instruction absent or any text one shorter
PromptParamsSet ==
    { a @@ b :
        a \in {EmptyDict} \cup {"content" :> t : t \in SeqsUpTo({" ", "\n", "x"}, MaxLen)},
        b \in {EmptyDict} \cup {"instruction" :> t : t \in SeqsUpTo({" ", "i"}, MaxLen - 1)} }

PromptInit ==
    /\ params \in PromptParamsSet
    /\ pc = "prompt"
    /\ model_type = "chat"
    /\ is_streaming = FALSE
    /\ config = DEFAULT_MODEL_CONFIG
    /\ api_key = [p \in Providers |-> ""]
    /\ token = API_TOKEN
    /\ stub = NoStub
    /\ idx = 0
    /\ last_error = NoError
    /\ raised = NoError
    /\ result = ""
    /\ log = <<>>
    /\ client = [p \in Providers |-> 0]
    /\ created = 0
    /\ closed_clients = <<>>
    /\ stream = NoStream
    /\ yielded = <<>>
    /\ gs_pc = "none"
    /\ eg_pc = "none"
    /\ frames = <<>>
    /\ consumer = "active"
    /\ svc_closed = FALSE
    /\ close_calls = 0
    /\ response = NoResponse

\* one call of _get_prompt(params): ValueError or the formatted template
BuildPrompt ==
    /\ pc = "prompt"
    /\ IF PromptFails(params)
       THEN /\ pc' = "prompt_raised"
            /\ raised' = Error("no_content", "", 0)
            /\ log' = log
       ELSE /\ pc' = "prompt_returned"
            /\ raised' = raised
            /\ log' = Append(log, Ev("prompt", 0, GetPrompt(params)))
    /\ UNCHANGED <<inputs, providerVars, closeVars, streamVars>>
    /\ UNCHANGED <<idx, last_error, result, response>>

PromptNext == BuildPrompt

PromptSpec == PromptInit /\ [][PromptNext]_vars

----------------------------------------------------------------------------
(* The provider instances on their own: any sequence of uses and closes *)

ProviderInit ==
    /\ api_key \in ApiKeys
    /\ token = API_TOKEN
    /\ stub = NoStub
    /\ pc = "provider"
    /\ params = EmptyDict
    /\ model_type = "chat"
    /\ is_streaming = FALSE
    /\ config = DEFAULT_MODEL_CONFIG
    /\ idx = 0
    /\ last_error = NoError
    /\ raised = NoError
    /\ result = ""
    /\ log = <<>>
    /\ client = [p \in Providers |-> 0]
    /\ created = 0
    /\ closed_clients = <<>>
    /\ stream = NoStream
    /\ yielded = <<>>
    /\ gs_pc = "none"
    /\ eg_pc = "none"
    /\ frames = <<>>
    /\ consumer = "active"
    /\ svc_closed = FALSE
    /\ close_calls = 0
    /\ response = NoResponse

\* generate / generate_stream of one provider up to its read of self.client:
\* the client held, a client constructed now, or the ValueError of a missing key
ProviderUse ==
    /\ pc = "provider"
    /\ Len(log) < MaxOps
    /\ \E p \in Providers :
        IF ClientAvailable(p)
        THEN /\ AcquireClient(p)
             /\ log' = Append(log, Ev("use", 0, [provider |-> p, id |-> client'[p]]))
        ELSE /\ log' = Append(log, Ev("use_failed", 0, Error("no_api_key", p, 0)))
             /\ UNCHANGED <<client, created>>
    /\ UNCHANGED <<inputs, pc, closed_clients, closeVars, streamVars>>
    /\ UNCHANGED <<idx, last_error, raised, result, response>>

\* close() of one provider
ProviderClose ==
    /\ pc = "provider"
    /\ Len(log) < MaxOps
    /\ \E p \in Providers, o \in CloseOutcomes :
        /\ closed_clients' = closed_clients \o CloseCall(p, o)
        /\ client' = [client EXCEPT ![p] = ClientAfterClose(p, o)]
        /\ log' = Append(log, Ev("close", 0, [provider |-> p,
                                                id |-> client[p],
                                                calls |-> Len(CloseCall(p, o)),
                                                raised |-> (client[p] # 0 /\ o = "raised")]))
    /\ UNCHANGED <<inputs, pc, created, closeVars, streamVars>>
    /\ UNCHANGED <<idx, last_error, raised, result, response>>

ProviderNext == ProviderUse \/ ProviderClose

ProviderSpec == ProviderInit /\ [][ProviderNext]_vars

----------------------------------------------------------------------------
(* event_generator on its own, given a stand-in for the service (as the router
   tests do): generate_stream yields any payload texts, then returns or raises *)

\* a text that json.loads refuses
MalformedPayload == [wellformed |-> FALSE, obj |-> EmptyDict]

StubPayloads ==
    { JsonDumps("chunk" :> "a"),
      JsonDumps("text" :> "a"),
      JsonDumps("error" :> <<"boom">>),
      MalformedPayload }

Stubs == [payloads : SeqsUpTo(StubPayloads, MaxPayloads), raises : BOOLEAN]

AdapterInit ==
    /\ token = API_TOKEN
    /\ stub \in Stubs
    /\ pc = "suspended"
    /\ eg_pc = "created"
    /\ gs_pc = "stub"
    /\ is_streaming = TRUE
    /\ params = EmptyDict
    /\ model_type = "chat"
    /\ config = DEFAULT_MODEL_CONFIG
    /\ api_key = [p \in Providers |-> ""]
    /\ idx = 0
    /\ last_error = NoError
    /\ raised = NoError
    /\ result = ""
    /\ log = <<>>
    /\ client = [p \in Providers |-> 0]
    /\ created = 0
    /\ closed_clients = <<>>
    /\ stream = NoStream
    /\ yielded = <<>>
    /\ frames = <<>>
    /\ consumer = "active"
    /\ svc_closed = FALSE
    /\ close_calls = 0
    /\ response = NoResponse

\* the stand-in yields its next payload: the body of event_generator's async for
StubYields ==
    /\ pc = "gs_resume"
    /\ gs_pc = "stub"
    /\ Len(yielded) < Len(stub.payloads)
    /\ yielded' = Append(yielded, stub.payloads[Len(yielded) + 1])
    /\ EgOnPayload(stub.payloads[Len(yielded) + 1])
    /\ UNCHANGED <<inputs, orchVars, providerVars, closeVars, stream, gs_pc, consumer,
                   response>>

\* the stand-in returns: the async for is over and the finally block runs
StubReturns ==
    /\ pc = "gs_resume"
    /\ gs_pc \in {"stub", "raised"}
    /\ gs_pc = "stub" => (Len(yielded) = Len(stub.payloads) /\ ~stub.raises)
    /\ gs_pc' = "finished"
    /\ EgFinally
    /\ UNCHANGED <<inputs, orchVars, providerVars, closeVars, stream, yielded, consumer,
                   response>>

\* the stand-in raises: routers/ai.py 58-61 yields an error frame from the except
\* block; the next resumption runs the finally block
StubRaises ==
    /\ pc = "gs_resume"
    /\ gs_pc = "stub"
    /\ Len(yielded) = Len(stub.payloads)
    /\ stub.raises
    /\ gs_pc' = "raised"
    /\ EgYield(ErrorFrame("error" :> <<"Error in event generator: ", "StubError">>),
               "susp_data")
    /\ UNCHANGED <<inputs, orchVars, providerVars, closeVars, stream, yielded, consumer,
                   response>>

AdapterNext ==
    \/ ConsumerPull
    \/ ConsumerPullAfterEnd
    \/ ConsumerCancel
    \/ CloseAtEnd
    \/ StubYields
    \/ StubReturns
    \/ StubRaises

AdapterSpec == AdapterInit /\ [][AdapterNext]_vars

----------------------------------------------------------------------------
(* Several requests in flight: the route's `ai_service = AIService()` and the
   provider objects each AIService constructs.  Here pc maps a request to its
   position and its service, and client / api_key are keyed by provider object
   <<service, provider name>> instead of by provider name. *)

Requests == 1..NumRequests

\* the provider objects of service s (AIService.__init__: self.providers)
ProvidersOf(s) == {<<s, p>> : p \in Providers}

\* variant: the services are one module-level instance shared by the requests
NewService_Shared(r) == 1

\* routers/ai.py 80: AIService() constructs a service of the request's own
NewService(r) == r

ConcurrentInit ==
    /\ pc = [r \in Requests |-> [at |-> "route", svc |-> 0, uses |-> 0]]
    /\ \E keys \in ApiKeys :
        api_key = [o \in Requests \X Providers |-> keys[o[2]]]
    /\ client = [o \in Requests \X Providers |-> 0]
    /\ created = 0
    /\ closed_clients = <<>>
    /\ token = API_TOKEN
    /\ stub = NoStub
    /\ params = EmptyDict
    /\ model_type = "chat"
    /\ is_streaming = FALSE
    /\ config = DEFAULT_MODEL_CONFIG
    /\ idx = 0
    /\ last_error = NoError
    /\ raised = NoError
    /\ result = ""
    /\ log = <<>>
    /\ stream = NoStream
    /\ yielded = <<>>
    /\ gs_pc = "none"
    /\ eg_pc = "none"
    /\ frames = <<>>
    /\ consumer = "active"
    /\ svc_closed = FALSE
    /\ close_calls = 0
    /\ response = NoResponse

\* the route constructs the request's service
ReqConstruct ==
    /\ \E r \in Requests :
        /\ pc[r].at = "route"
        /\ pc' = [pc EXCEPT ![r] = [at |-> "working", svc |-> NewService(r), uses |-> 0]]
    /\ UNCHANGED <<inputs, orchVars, providerVars, closeVars, streamVars, response>>

\* a step of the request's walk invokes a provider of its service: the lazy
\* client, or ValueError without a key
ReqUse ==
    /\ \E r \in Requests, p \in Providers :
        /\ pc[r].at = "working"
        /\ pc[r].uses <= MaxFallbacks
        /\ pc' = [pc EXCEPT ![r].uses = @ + 1]
        /\ IF ClientAvailable(<<pc[r].svc, p>>)
           THEN AcquireClient(<<pc[r].svc, p>>)
           ELSE UNCHANGED <<client, created>>
    /\ UNCHANGED <<inputs, orchVars, closed_clients, closeVars, streamVars, response>>

\* the request ends: ai_service.close() closes the providers of its service
ReqClose ==
    /\ \E r \in Requests, o \in [Providers -> CloseOutcomes] :
        /\ pc[r].at = "working"
        /\ pc' = [pc EXCEPT ![r].at = "done"]
        /\ closed_clients' = closed_clients \o CloseCall(<<pc[r].svc, "openai">>, o["openai"])
                                \o CloseCall(<<pc[r].svc, "anthropic">>, o["anthropic"])
        /\ client' = [ob \in DOMAIN client |->
                        IF ob \in ProvidersOf(pc[r].svc)
                        THEN ClientAfterClose(ob, o[ob[2]])
                        ELSE client[ob]]
    /\ UNCHANGED <<inputs, orchVars, created, closeVars, streamVars, response>>

ConcurrentNext == ReqConstruct \/ ReqUse \/ ReqClose

ConcurrentSpec == ConcurrentInit /\ [][ConcurrentNext]_vars

(* Two operations on the same provider objects under the event loop's cooperative
   scheduling.  Here pc holds the position of each operation and the operation
   that owns the loop (0: every operation is suspended or over); the running
   operation keeps the loop until it reaches a suspension point. *)

Operations == Requests

\* variant: the client is constructed by an awaited factory, a suspension point
\* between the test of _client and its assignment
ClientPropertySuspends_AwaitsFactory == TRUE

\* the `client` property (openai_service.py 21-31, anthropic_service.py 18-25)
\* has no await between `if self._client is None` and `self._client = ...`
ClientPropertySuspends == FALSE

IdleOp == [at |-> "idle", provider |-> "", saw_none |-> FALSE, got |-> 0]

LazyInit ==
    /\ pc = [ops |-> [t \in Operations |-> IdleOp], running |-> 0]
    /\ api_key \in ApiKeys
    /\ client = [p \in Providers |-> 0]
    /\ created = 0
    /\ closed_clients = <<>>
    /\ token = API_TOKEN
    /\ stub = NoStub
    /\ params = EmptyDict
    /\ model_type = "chat"
    /\ is_streaming = FALSE
    /\ config = DEFAULT_MODEL_CONFIG
    /\ idx = 0
    /\ last_error = NoError
    /\ raised = NoError
    /\ result = ""
    /\ log = <<>>
    /\ stream = NoStream
    /\ yielded = <<>>
    /\ gs_pc = "none"
    /\ eg_pc = "none"
    /\ frames = <<>>
    /\ consumer = "active"
    /\ svc_closed = FALSE
    /\ close_calls = 0
    /\ response = NoResponse

\* the loop starts operation t: generate / generate_stream of provider p runs up to
\* its read of self.client
OpStart ==
    /\ pc.running = 0
    /\ \E t \in Operations, p \in Providers :
        /\ pc.ops[t].at = "idle"
        /\ pc' = [pc EXCEPT !.ops[t].at = "check", !.ops[t].provider = p, !.running = t]
    /\ UNCHANGED <<inputs, orchVars, providerVars, closeVars, streamVars, response>>

\* `if self._client is None`, `if not self._api_key: raise ValueError`; a client
\* that exists is returned and the operation suspends in the vendor call
OpCheck ==
    /\ \E t \in Operations :
        /\ pc.running = t
        /\ pc.ops[t].at = "check"
        /\ LET p == pc.ops[t].provider IN
            IF client[p] # 0
            THEN pc' = [pc EXCEPT !.ops[t].at = "awaiting", !.ops[t].got = client[p],
                                  !.running = 0]
            ELSE IF api_key[p] = ""
            THEN pc' = [pc EXCEPT !.ops[t].at = "failed", !.ops[t].saw_none = TRUE,
                                  !.running = 0]
            ELSE pc' = [pc EXCEPT !.ops[t].at = "construct", !.ops[t].saw_none = TRUE,
                                  !.running = IF ClientPropertySuspends THEN 0 ELSE t]
    /\ UNCHANGED <<inputs, orchVars, providerVars, closeVars, streamVars, response>>

\* `self._client = AsyncOpenAI(...)`; `return self._client`; the operation then
\* suspends in the vendor call
OpConstruct ==
    /\ \E t \in Operations :
        /\ pc.running = t \/ (pc.running = 0 /\ ClientPropertySuspends)
        /\ pc.ops[t].at = "construct"
        /\ LET p == pc.ops[t].provider IN
            /\ client' = [client EXCEPT ![p] = created + 1]
            /\ created' = created + 1
            /\ log' = Append(log, Ev("construct", t, [provider |-> p, id |-> created + 1]))
            /\ pc' = [pc EXCEPT !.ops[t].at = "awaiting", !.ops[t].got = created + 1,
                                !.running = 0]
    /\ UNCHANGED <<inputs, idx, last_error, raised, result, closed_clients, closeVars,
                   streamVars, response>>

\* the vendor call of a suspended operation completes and the operation ends
OpResume ==
    /\ pc.running = 0
    /\ \E t \in Operations :
        /\ pc.ops[t].at = "awaiting"
        /\ pc' = [pc EXCEPT !.ops[t].at = "done"]
    /\ UNCHANGED <<inputs, orchVars, providerVars, closeVars, streamVars, response>>

LazyNext == OpStart \/ OpCheck \/ OpConstruct \/ OpResume

LazySpec == LazyInit /\ [][LazyNext]_vars

----------------------------------------------------------------------------
(* One AIService on its own: any sequence of generate_response, generate_stream
   and close calls, one after the other *)

ServiceInit ==
    /\ api_key \in ApiKeys
    /\ token = API_TOKEN
    /\ stub = NoStub
    /\ pc = "service"
    /\ params = EmptyDict
    /\ model_type = "chat"
    /\ is_streaming = FALSE
    /\ config = DEFAULT_MODEL_CONFIG
    /\ idx = 0
    /\ last_error = NoError
    /\ raised = NoError
    /\ result = ""
    /\ log = <<>>
    /\ client = [p \in Providers |-> 0]
    /\ created = 0
    /\ closed_clients = <<>>
    /\ stream = NoStream
    /\ yielded = <<>>
    /\ gs_pc = "none"
    /\ eg_pc = "none"
    /\ frames = <<>>
    /\ consumer = "active"
    /\ svc_closed = FALSE
    /\ close_calls = 0
    /\ response = NoResponse

\* the two generating operations of the service; neither reads _closed
GenerateOps == {"generate_response", "generate_stream"}

\* generate_response / a consumed generate_stream whose walk invokes provider p:
\* the provider's lazy client, or the ValueError of a missing key
SvcGenerate ==
    /\ pc = "service"
    /\ Len(log) < MaxOps
    /\ \E op \in GenerateOps, p \in Providers :
        IF ClientAvailable(p)
        THEN /\ AcquireClient(p)
             /\ log' = Append(log, Ev(op, 0, [provider |-> p, id |-> client'[p],
                                              closed |-> svc_closed]))
        ELSE /\ log' = Append(log, Ev(op, 0, [provider |-> p, id |-> 0,
                                              closed |-> svc_closed]))
             /\ UNCHANGED <<client, created>>
    /\ UNCHANGED <<inputs, pc, closed_clients, closeVars, streamVars>>
    /\ UNCHANGED <<idx, last_error, raised, result, response>>

\* AIService.close
SvcClose ==
    /\ pc = "service"
    /\ Len(log) < MaxOps
    /\ \E o \in [Providers -> CloseOutcomes] :
        /\ ServiceCloseWith(o)
        /\ log' = Append(log, Ev("close", 0,
                    [called |-> ProviderCloseCalls(o),
                     raised |-> {p \in Providers :
                                    /\ \E i \in DOMAIN ProviderCloseCalls(o) :
                                            ProviderCloseCalls(o)[i] = p
                                    /\ CloseRaises(p, o)},
                     propagated |-> (~svc_closed /\ CloseResult(o).raises)]))
    /\ UNCHANGED <<inputs, pc, created, streamVars>>
    /\ UNCHANGED <<idx, last_error, raised, result, response>>

ServiceNext == SvcGenerate \/ SvcClose

ServiceSpec == ServiceInit /\ [][ServiceNext]_vars

----------------------------------------------------------------------------
Spec == Init /\ [][Next]_vars

\* the steps of the walk and of the provider call it awaits
WalkStep ==
    \/ OrchGetConfig
    \/ OrchTryStep
    \/ ProviderGenerate
    \/ VendorFails
    \/ VendorAnswersEmpty
    \/ VendorAnswers

\* the request of Spec when the walk keeps running and every vendor call that is
\* awaited comes back, with an answer or with an error
FairSpec == Spec /\ WF_vars(WalkStep)

----------------------------------------------------------------------------
(* Properties of the fallback walk *)

\* the walk logged the event ev for step i
Happened(ev, i) == \E j \in DOMAIN log : log[j].ev = ev /\ log[j].idx = i

Configured == HasModelConfig(config, model_type)

\* length of the attempt list of the request's plan
NumSteps == Len(AttemptList(CurrentPlan))

WalkPcs == {"orch_config", "orch_try", "generate", "vendor_call"}

\* C1: when the primary step succeeds, no fallback step is resolved or invoked:
\* the success is the last thing the walk does, every step it touched is the
\* primary, nothing is raised, and the value returned (and, non-streaming, the
\* content of the HTTP response) is the primary's.
C1_PrimarySuccessShortCircuits ==
    \A j \in DOMAIN log :
        (log[j].ev = "ok" /\ log[j].idx = 1) =>
            /\ j = Len(log)
            /\ \A k \in DOMAIN log : log[k].idx = 1
            /\ raised = NoError
            /\ pc \notin WalkPcs \cup {"orch_raised", "route_except"}
            /\ IF is_streaming THEN stream.idx = 1 ELSE result = log[j].data
            /\ (pc = "done" /\ ~is_streaming) =>
                    response.status = 200 /\ response.body.content = log[j].data

\* a finished non-streaming request with fallbacks configured whose primary succeeded
C1_Witness ==
    /\ Configured
    /\ pc = "done"
    /\ ~is_streaming
    /\ NumSteps >= 2
    /\ Happened("ok", 1)
    /\ response.status = 200

\* C2: when a fallback step succeeds, every earlier step of the list has failed and
\* none has succeeded (it is the first that succeeds), its value is what is returned,
\* and none of the earlier errors is raised: the call ends without an error.
C2_FallbackResultReturned ==
    \A j \in DOMAIN log :
        (log[j].ev = "ok" /\ log[j].idx > 1) =>
            /\ j = Len(log)
            /\ \A k \in 1..(log[j].idx - 1) : Happened("fail", k) /\ ~Happened("ok", k)
            /\ raised = NoError
            /\ pc \notin WalkPcs \cup {"orch_raised", "route_except"}
            /\ IF is_streaming THEN stream.idx = log[j].idx ELSE result = log[j].data
            /\ (pc = "done" /\ ~is_streaming) =>
                    response.status = 200 /\ response.body.content = log[j].data

\* a finished non-streaming request served by its second fallback
C2_Witness ==
    /\ pc = "done"
    /\ ~is_streaming
    /\ Happened("fail", 1)
    /\ Happened("fail", 2)
    /\ Happened("ok", 3)
    /\ response.status = 200

\* C3: when the walk raises (the model type being configured), every step of the
\* attempt list has failed and the error raised is the one the last step failed
\* with; non-streaming, it is the detail of the 500 response.
C3_LastErrorRaised ==
    (Configured /\ raised # NoError) =>
        /\ \A k \in 1..NumSteps : Happened("fail", k) /\ ~Happened("ok", k)
        /\ log[Len(log)] = Ev("fail", NumSteps, raised)
        /\ raised.at = NumSteps
        /\ (pc = "done" /\ ~is_streaming) =>
                response.status = 500 /\ response.detail = raised

\* three steps failed for three different reasons and the request is over
C3_Witness ==
    /\ Configured
    /\ pc = "done"
    /\ NumSteps = 3
    /\ raised.kind = "empty_response"
    /\ \E j \in DOMAIN log :
        log[j].ev = "fail" /\ log[j].idx = 1 /\ log[j].data.kind = "unknown_provider"
    /\ \E j \in DOMAIN log :
        log[j].ev = "fail" /\ log[j].idx = 2 /\ log[j].data.kind = "no_api_key"

----------------------------------------------------------------------------
(* Properties of the streamed response *)

\* the frames a consumer must see for the fragments fs, written out as the wire
\* format prescribes: one data frame per fragment carrying {"chunk": fragment}
ChunkFramesOf(fs) ==
    [i \in 1..Len(fs) |->
        [event |-> "message", data |-> [wellformed |-> TRUE, obj |-> ("chunk" :> fs[i])]]]

ExpectedEnd == [event |-> "end", data |-> [wellformed |-> TRUE, obj |-> EmptyDict]]

EndDelivered == Len(frames) >= 1 /\ frames[Len(frames)].event = "end"

StreamPcs == {"stream_start", "stream_create", "stream_next"}

\* the stream was consumed up to and including End
ConsumedToEnd == consumer # "cancelled" /\ eg_pc \in {"susp_end", "finished"}

\* C4: an End frame is never followed by another frame (so there is at most one),
\* and every stream that is consumed until event_generator leaves its loop, whether
\* it ended normally, failed mid-stream or failed before any fragment, has
\* delivered End as its last frame.
C4_EndOnceAndLast ==
    /\ \A i \in DOMAIN frames : frames[i].event = "end" => i = Len(frames)
    /\ (is_streaming /\ ConsumedToEnd) => EndDelivered

\* a stream that failed after a fragment and was consumed to its end
C4_Witness ==
    /\ eg_pc = "finished"
    /\ consumer = "active"
    /\ stream.state = "failed"
    /\ Len(yielded) >= 1
    /\ Len(frames) = Len(yielded) + 2
    /\ EndDelivered

\* C5: whenever the stream generator has finished, whatever the exit path, the
\* service was closed.
C5_ClosedOnEveryExit ==
    (is_streaming /\ eg_pc = "finished") => (close_calls >= 1 /\ svc_closed)

\* C6: once fragment production has raised, the output is the chunk frames of the
\* fragments yielded so far, then one error frame, then (when consumed) End and
\* nothing else; the provider stream is never resumed.
C6_MidStreamErrorInlined ==
    stream.state = "failed" =>
        LET n == Len(yielded) IN
        /\ pc \notin StreamPcs
        /\ gs_pc \in {"susp_error", "finished"}
        /\ Len(frames) \in {n + 1, n + 2}
        /\ SubSeq(frames, 1, n) = ChunkFramesOf(yielded)
        /\ frames[n + 1].event = "error"
        /\ DOMAIN frames[n + 1].data.obj = {"error"}
        /\ frames[n + 1].data.obj["error"][2] \in VendorErrors \cup {"no_api_key", "TypeError"}
        /\ Len(frames) = n + 2 => frames[n + 2] = ExpectedEnd
        /\ ConsumedToEnd => Len(frames) = n + 2

\* the vendor stream broke after one fragment and the consumer read on to the end
C6_Witness ==
    /\ stream.state = "failed"
    /\ yielded = <<"a">>
    /\ eg_pc = "finished"
    /\ consumer = "active"
    /\ frames[2].data.obj["error"][2] = "APIConnectionError"

\* C7: a provider stream that ends after N fragments yields exactly the N chunk
\* frames, in order, then End; the service is closed once for a fully consumed
\* stream, never more than once, and never before End was delivered.
C7_FullStreamFramesThenClose ==
    /\ stream.state = "done" => frames = ChunkFramesOf(yielded) \o <<ExpectedEnd>>
    /\ (stream.state = "done" /\ eg_pc = "finished" /\ consumer = "active") =>
            (close_calls = 1 /\ svc_closed)
    /\ is_streaming => (close_calls <= 1 /\ (close_calls >= 1 => EndDelivered))

\* two different fragments streamed, consumed, and the service closed
C7_Witness ==
    /\ stream.state = "done"
    /\ yielded = <<"a", "b">>
    /\ eg_pc = "finished"
    /\ consumer = "active"
    /\ close_calls = 1

C9_NoFallbackAfterHandle ==
    (is_streaming /\ stream.state # "none") =>
        /\ \A j \in DOMAIN log : log[j].idx <= stream.idx
        /\ log[Len(log)].ev = "ok" /\ log[Len(log)].idx = stream.idx
        /\ idx = stream.idx
        /\ pc \notin WalkPcs \cup {"orch_raised"}
        /\ raised = NoError
        /\ stream.state = "failed" => \E i \in DOMAIN frames : frames[i].event = "error"

\* the primary's handle failed before any fragment although a fallback was configured
C9_Witness ==
    /\ is_streaming
    /\ stream.state = "failed"
    /\ stream.idx = 1
    /\ NumSteps >= 2
    /\ ProviderRegistered(AttemptList(CurrentPlan)[2].provider)
    /\ yielded = <<>>
    /\ eg_pc = "finished"

\* the "try" and the "invoke" events of the walk, in order
Tries == SelectSeq(log, LAMBDA x : x.ev = "try")

Invokes == SelectSeq(log, LAMBDA x : x.ev = "invoke")

\* the request was refused by verify_token
Rejected == response.status = 401

\* the walk has not begun
BeforeWalk == pc \in {"auth", "route", "orch_config"} \/ gs_pc = "created" \/ Rejected

\* C10: the steps tried are steps 1, 2, 3, ... each once; no step's provider is
\* invoked twice; and a step that is reached (the walk began, every earlier step
\* failed) is tried.
C10_EachStepTriedOnce ==
    /\ \A i \in DOMAIN Tries : Tries[i].idx = i
    /\ \A i, j \in DOMAIN Invokes : Invokes[i].idx = Invokes[j].idx => i = j
    /\ (Configured /\ ~BeforeWalk) =>
            \A k \in 1..NumSteps :
                (\A m \in 1..(k - 1) : Happened("fail", m)) =>
                    \/ Happened("try", k)
                    \/ (pc = "orch_try" /\ idx = k)

\* a finished call that went through three steps, invoking the provider of each
C10_Witness ==
    /\ pc = "done"
    /\ Len(Tries) = 3
    /\ Len(Invokes) = 3

----------------------------------------------------------------------------
(* Further properties of the fallback walk *)

\* step k of the configured plan: the primary, then the fallbacks in list order
ConfiguredStep(k) ==
    IF k = 1 THEN config[model_type].primary ELSE config[model_type].fallbacks[k - 1]

\* the steps that were started and have neither failed nor returned yet
InFlight == {k \in 1..idx : Happened("try", k) /\ ~Happened("fail", k) /\ ~Happened("ok", k)}

\* C11: the k-th step started is the k-th configured step (primary first, then the
\* fallbacks in list order); when a step is started the failure of every earlier
\* step is already in the history and nothing of a later step or any success is;
\* at most one step is in flight at any time.
C11_OrderedSequential ==
    /\ \A j \in DOMAIN log :
        log[j].ev = "try" =>
            /\ log[j].data = ConfiguredStep(log[j].idx).provider
            /\ \A m \in 1..(log[j].idx - 1) :
                \E i \in 1..(j - 1) : log[i].ev = "fail" /\ log[i].idx = m
            /\ \A i \in 1..(j - 1) : log[i].idx < log[j].idx /\ log[i].ev # "ok"
    /\ Cardinality(InFlight) <= 1

\* three steps naming three different providers were walked, the last one in flight
C11_Witness ==
    /\ Configured
    /\ NumSteps = 3
    /\ ConfiguredStep(1).provider = "mock"
    /\ ConfiguredStep(2).provider = "anthropic"
    /\ ConfiguredStep(3).provider = "openai"
    /\ pc = "vendor_call"
    /\ InFlight = {3}

\* raise ValueError(f"No configuration found for model type: {model_type}")
UnknownModelTypeError == [kind |-> "no_config", who |-> model_type, at |-> 0]

\* C12: for a model type the configuration does not hold, the walk never starts:
\* no step is resolved, built or invoked, no network client is constructed, no
\* stream handle exists, and once the lookup is over the call has raised the
\* unknown-model-type error (the detail of the 500 response, non-streaming).
C12_UnknownModelTypeFailsAtOnce ==
    model_type \notin DOMAIN config =>
        /\ log = <<>>
        /\ idx = 0
        /\ created = 0
        /\ stream.state = "none"
        /\ pc \notin {"orch_try", "generate", "vendor_call", "orch_returned", "route_ok"}
                \cup StreamPcs
        /\ raised \in {NoError, UnknownModelTypeError}
        /\ ~BeforeWalk => raised = UnknownModelTypeError
        /\ (pc = "done" /\ ~is_streaming /\ ~Rejected) =>
                response.status = 500 /\ response.detail = UnknownModelTypeError

\* a finished non-streaming request for a type that is not configured
C12_Witness ==
    /\ model_type = "summary"
    /\ ~is_streaming
    /\ pc = "done"
    /\ response.status = 500

\* C13: a step naming an unregistered provider fails with the unknown-provider error
\* without any provider being invoked, and the walk goes on with the next step when
\* there is one; that error is raised only as the error of the last step, all
\* steps having failed.
C13_UnknownProviderIsAStepFailure ==
    /\ \A j \in DOMAIN log :
        (log[j].ev = "try" /\ log[j].data \notin {"openai", "anthropic"}) =>
            LET k == log[j].idx IN
            /\ ~Happened("invoke", k) /\ ~Happened("ok", k)
            /\ j < Len(log)
            /\ log[j + 1].ev = "fail" /\ log[j + 1].idx = k
            /\ log[j + 1].data = [kind |-> "unknown_provider", who |-> log[j].data, at |-> k]
            /\ k < NumSteps => (Happened("try", k + 1) \/ (pc = "orch_try" /\ idx = k + 1))
    /\ raised.kind = "unknown_provider" =>
            /\ raised.at = NumSteps
            /\ raised.who = ConfiguredStep(NumSteps).provider
            /\ \A k \in 1..NumSteps : Happened("fail", k)

\* the primary names an unregistered provider and the request was served by a fallback
C13_Witness ==
    /\ Configured
    /\ ConfiguredStep(1).provider = "mock"
    /\ Happened("fail", 1)
    /\ Happened("ok", 2)
    /\ pc = "done"
    /\ response.status = 200

\* the keyword arguments a step must pass to its provider, key by key
ExpectedKwargs(step) ==
    [k \in (DOMAIN step.params \cup (DOMAIN params \ {"content", "instruction"}))
            \cup {"prompt", "model"} |->
        IF k = "prompt" THEN GetPrompt(params)
        ELSE IF k \in DOMAIN params THEN params[k]
        ELSE IF k = "model" THEN step.model
        ELSE step.params[k]]

\* C14: every provider invocation receives the step's default params overlaid by
\* the caller's keys other than content and instruction (caller wins), with prompt
\* set to the built prompt and model to the override or the step's model; content
\* and instruction are not among the keys.
C14_ProviderKwargs ==
    \A j \in DOMAIN log :
        log[j].ev = "invoke" =>
            /\ log[j].data = ExpectedKwargs(ConfiguredStep(log[j].idx))
            /\ DOMAIN log[j].data \cap {"content", "instruction"} = {}
            /\ "prompt" \in DOMAIN params => log[j].data["prompt"] # params["prompt"]

\* a provider was invoked for a caller that overrides temperature and adds tone
C14_Witness ==
    /\ "tone" \in DOMAIN params
    /\ "instruction" \in DOMAIN params
    /\ \E j \in DOMAIN log :
        /\ log[j].ev = "invoke"
        /\ log[j].data["temperature"] = "0.2"
        /\ log[j].data["tone"] = "formal"
        /\ "max_tokens" \in DOMAIN log[j].data
        /\ log[j].data["max_tokens"] = "1000"

----------------------------------------------------------------------------
(* Properties of the prompt builder *)

Blank(t) == \A i \in DOMAIN t : t[i] \in {" ", "\n"}

\* t is s without its leading and trailing whitespace
IsTrimOf(t, s) ==
    /\ t # <<>> => (~Blank(<<t[1]>>) /\ ~Blank(<<t[Len(t)]>>))
    /\ \E a \in 0..Len(s) :
        /\ a + Len(t) <= Len(s)
        /\ SubSeq(s, a + 1, a + Len(t)) = t
        /\ Blank(SubSeq(s, 1, a))
        /\ Blank(SubSeq(s, a + Len(t) + 1, Len(s)))

\* the text _get_prompt returned and its two substituted segments
BuiltPrompt == log[1].data
MidAt == CHOOSE i \in DOMAIN BuiltPrompt : BuiltPrompt[i] = "TEMPLATE_MID"
ContentSegment == SubSeq(BuiltPrompt, 2, MidAt - 1)
InstructionSegment == SubSeq(BuiltPrompt, MidAt + 1, Len(BuiltPrompt) - 1)

ContentBlank == "content" \notin DOMAIN params \/ Blank(params["content"])

\* C16: the prompt builder raises the empty-content error exactly when content is
\* absent, empty or all whitespace, whatever the instruction is; otherwise it
\* returns the template with the trimmed content substituted.
C16_PromptContent ==
    /\ pc = "prompt_raised" =>
        /\ ContentBlank
        /\ raised = [kind |-> "no_content", who |-> "", at |-> 0]
        /\ log = <<>>
    /\ pc = "prompt_returned" =>
        /\ ~ContentBlank
        /\ raised = NoError
        /\ BuiltPrompt[1] = "TEMPLATE_HEAD"
        /\ BuiltPrompt[Len(BuiltPrompt)] = "TEMPLATE_TAIL"
        /\ Cardinality({i \in DOMAIN BuiltPrompt : BuiltPrompt[i] = "TEMPLATE_MID"}) = 1
        /\ ContentSegment # <<>>
        /\ IsTrimOf(ContentSegment, params["content"])

\* an all-whitespace content with an instruction given was rejected
C16_Witness ==
    /\ pc = "prompt_raised"
    /\ "content" \in DOMAIN params
    /\ Len(params["content"]) = 2
    /\ "instruction" \in DOMAIN params
    /\ ~Blank(params["instruction"])

\* C17: the empty-content error is not retried: once a step has failed with it no
\* further step is attempted and no provider is invoked, and the error the caller
\* receives is the empty-content error, whatever the plan is.
C17_EmptyContentNotRetried ==
    (Configured /\ ContentBlank) =>
        /\ \A j \in DOMAIN log :
            (log[j].ev = "fail" /\ log[j].data.kind = "no_content") => j = Len(log)
        /\ \A j \in DOMAIN log : log[j].ev # "invoke"
        /\ raised # NoError => raised.kind = "no_content"

InstructionBlank == "instruction" \notin DOMAIN params \/ Blank(params["instruction"])

\* C18: the instruction in the built prompt is the caller's trimmed instruction, and
\* the fixed generic instruction whenever the caller's is absent or empty after
\* trimming.
C18_InstructionDefault ==
    pc = "prompt_returned" =>
        IF InstructionBlank
        THEN InstructionSegment = <<"Please process the following text">>
        ELSE IsTrimOf(InstructionSegment, params["instruction"])

----------------------------------------------------------------------------
(* Properties of the provider clients *)

Invoked ==
    {p \in Providers :
        \E j \in DOMAIN log : log[j].ev = "invoke" /\ ConfiguredStep(log[j].idx).provider = p}

\* C20: a network client exists only for a provider that a step has invoked and that
\* has a non-empty credential, and one is constructed per such provider at most
\* (none at construction of the providers or of the service); a use with an empty
\* credential fails with the missing-credential error and leaves the provider
\* without a client.
C20_LazyClient ==
    /\ \A p \in Providers : api_key[p] = "" => client[p] = 0
    /\ \A p \in Providers : client[p] # 0 => p \in Invoked
    /\ created <= Cardinality({p \in Invoked : api_key[p] # ""})
    /\ (log = <<>> \/ (is_streaming /\ stream.state \in {"none", "unstarted"})) => created = 0
    /\ \A j \in DOMAIN log :
        (/\ ~is_streaming
         /\ log[j].ev = "invoke"
         /\ api_key[ConfiguredStep(log[j].idx).provider] = ""
         /\ ~(pc = "generate" /\ idx = log[j].idx))
            => /\ j < Len(log)
               /\ log[j + 1] = [ev |-> "fail", idx |-> log[j].idx,
                                data |-> [kind |-> "no_api_key",
                                          who |-> ConfiguredStep(log[j].idx).provider,
                                          at |-> log[j].idx]]
    /\ (is_streaming /\ stream.state \notin {"none", "unstarted"} /\ api_key[stream.provider] = "")
            => /\ stream.state = "failed"
               /\ \E i \in DOMAIN frames :
                    /\ frames[i].event = "error"
                    /\ frames[i].data.obj["error"] =
                            <<"Error in streaming response: ", "no_api_key", stream.provider>>

\* the primary's provider has no credential and stayed without a client; the
\* fallback's provider constructed the only client on its use
C20_Witness ==
    /\ ~is_streaming
    /\ pc = "vendor_call"
    /\ idx = 2
    /\ ConfiguredStep(1).provider \in Providers
    /\ api_key[ConfiguredStep(1).provider] = ""
    /\ client[ConfiguredStep(1).provider] = 0
    /\ Len(log) >= 3
    /\ log[3].ev = "fail" /\ log[3].data.kind = "no_api_key"
    /\ client[ConfiguredStep(2).provider] = 1
    /\ created = 1

\* the closes of the history, up to position j, that returned for network client n
ReturnedCloses(n, j) ==
    {i \in 1..j : log[i].ev = "close" /\ log[i].data.calls = 1
                    /\ ~log[i].data.raised /\ log[i].data.id = n}

HasText(d) == d.content_event /\ d.text \notin {"", "None"}

RECURSIVE TextsOf(_)
TextsOf(ds) ==
    IF ds = <<>> THEN <<>>
    ELSE (IF HasText(Head(ds)) THEN <<Head(ds).text>> ELSE <<>>) \o TextsOf(Tail(ds))

\* C22: the fragments a provider's generate_stream has yielded are the texts of the
\* vendor's deltas that carry non-empty text, in the vendor's order: a delta with
\* empty text, without text or of another type yields nothing.
C22_OnlyNonEmptyFragments ==
    /\ \A i \in DOMAIN yielded : yielded[i] \notin {"", "None"}
    /\ yielded = TextsOf(stream.deltas)

\* C23: non-streaming, every provider invocation ends as a failed step or returns
\* text of at least one character: a vendor error and a response without choices,
\* without content or with empty text are failures of the step, and the content of
\* a 200 response is never empty.
C23_GenerateNeverReturnsEmpty ==
    ~is_streaming =>
        /\ \A j \in DOMAIN log :
            log[j].ev = "invoke" =>
                \/ j = Len(log) /\ pc \in {"generate", "vendor_call"}
                \/ /\ j < Len(log)
                   /\ log[j + 1].idx = log[j].idx
                   /\ \/ log[j + 1].ev = "fail"
                      \/ log[j + 1].ev = "ok" /\ log[j + 1].data \in {"A", "B"}
        /\ \A j \in DOMAIN log : log[j].ev = "ok" => result = log[j].data /\ result # ""
        /\ response.status = 200 => response.body.content \in {"A", "B"}

\* the primary's vendor answered without usable text, the fallback answered with text
C23_Witness ==
    /\ ~is_streaming
    /\ response.status = 200
    /\ Len(log) = 6
    /\ log[3].ev = "fail" /\ log[3].data.kind = "empty_response"
    /\ log[6].ev = "ok"

----------------------------------------------------------------------------
(* Properties of the transport adapter (event_generator) *)

\* the frames the payloads ps must produce, one per payload that is valid JSON
RECURSIVE ExpectedFramesOf(_)
ExpectedFramesOf(ps) ==
    IF ps = <<>> THEN <<>>
    ELSE (IF ~Head(ps).wellformed THEN <<>>
          ELSE IF "error" \in DOMAIN Head(ps).obj
          THEN <<[event |-> "error", data |-> [wellformed |-> TRUE, obj |-> Head(ps).obj]]>>
          ELSE <<[event |-> "message", data |-> Head(ps)]>>)
         \o ExpectedFramesOf(Tail(ps))

\* the frame of the except block, present once the stand-in has raised
ExceptFrames ==
    IF gs_pc = "raised" \/ (gs_pc = "finished" /\ stub.raises)
    THEN <<[event |-> "error",
            data |-> [wellformed |-> TRUE,
                      obj |-> ("error" :> <<"Error in event generator: ", "StubError">>)]]>>
    ELSE <<>>

\* C24: a payload that is not valid JSON produces no frame; the payloads before
\* and after it produce their frames in order, and a consumer that reads to the
\* end gets a frame for every valid payload and then End.
C24_MalformedPayloadDropped ==
    /\ \A i \in DOMAIN frames : frames[i].data.wellformed
    /\ frames \in {ExpectedFramesOf(yielded) \o ExceptFrames,
                   ExpectedFramesOf(yielded) \o ExceptFrames \o <<ExpectedEnd>>}
    /\ ConsumedToEnd =>
            frames = ExpectedFramesOf(stub.payloads) \o ExceptFrames \o <<ExpectedEnd>>

\* a malformed payload followed by a valid one, read to the end
C24_Witness ==
    /\ stub.payloads = <<[wellformed |-> FALSE, obj |-> EmptyDict], JsonDumps("chunk" :> "a")>>
    /\ ~stub.raises
    /\ eg_pc = "finished"
    /\ consumer = "active"
    /\ Len(frames) = 2
    /\ frames[1].event = "message"
    /\ frames[2].event = "end"

\* the frames of one kind, in order
FramesOfEvent(ev) == SelectSeq(frames, LAMBDA f : f.event = ev)

\* an error was reported in the request's stream: the walk's, once generate_stream
\* has caught it, or the one raised while the provider stream was iterated
StreamFailure == (raised # NoError /\ pc # "orch_raised") \/ stream.state = "failed"

\* C25: each envelope is one frame: the i-th plain data frame carries {"chunk": f}
\* for the i-th fragment f, an error is one frame of event type error carrying
\* {"error": message}, the end marker is a frame of event type end with an empty
\* payload; a frame is an error frame exactly when its payload has the key error.
C25_WireEncoding ==
    is_streaming =>
        /\ \A i \in DOMAIN frames :
            /\ frames[i].event \in {"message", "error", "end"}
            /\ frames[i].data.wellformed
            /\ frames[i].event = "error" <=> "error" \in DOMAIN frames[i].data.obj
            /\ frames[i].event = "end" => DOMAIN frames[i].data.obj = {}
        /\ Len(FramesOfEvent("message")) = Len(yielded)
        /\ \A i \in DOMAIN yielded :
            FramesOfEvent("message")[i].data.obj = [k \in {"chunk"} |-> yielded[i]]
        /\ Len(FramesOfEvent("error")) = (IF StreamFailure THEN 1 ELSE 0)
        /\ \A i \in DOMAIN FramesOfEvent("error") :
            /\ DOMAIN FramesOfEvent("error")[i].data.obj = {"error"}
            /\ FramesOfEvent("error")[i].data.obj["error"][1] = "Error in streaming response: "
            /\ raised # NoError =>
                    FramesOfEvent("error")[i].data.obj["error"] =
                        <<"Error in streaming response: ", raised.kind, raised.who>>
        /\ Len(FramesOfEvent("end")) <= 1

\* one frame of each kind was delivered: a fragment, then an error, then End
C25_Witness ==
    /\ is_streaming
    /\ Len(frames) = 3
    /\ frames[1].event = "message" /\ frames[1].data.obj["chunk"] = "b"
    /\ frames[2].event = "error"
    /\ frames[3].event = "end"

----------------------------------------------------------------------------
(* Properties of concurrent requests *)

\* the client state of the providers of request r's service
ClientsOf(r) == [p \in Providers |-> client[<<pc[r].svc, p>>]]

\* C26: requests in flight have services of their own, and a step taken by one
\* request (the construction of its service, the lazy construction of a client, its
\* close) leaves the client of every provider of every other request's service as
\* it was, under every interleaving.
C26_NoSharedProviderState ==
    /\ [](\A r1, r2 \in Requests :
            (r1 # r2 /\ pc[r1].svc # 0 /\ pc[r2].svc # 0) => pc[r1].svc # pc[r2].svc)
    /\ [][\A r \in Requests :
            (pc'[r] = pc[r] /\ pc[r].svc # 0) =>
                \A p \in Providers : client'[<<pc[r].svc, p>>] = client[<<pc[r].svc, p>>]]_vars

\* one request has closed its service while another still holds a client
C26_Witness ==
    /\ pc[1].at = "done"
    /\ pc[2].at = "working"
    /\ ClientsOf(1)["openai"] = 0
    /\ ClientsOf(2)["openai"] = 2
    /\ Len(closed_clients) = 1
    /\ closed_clients[1].id = 1

----------------------------------------------------------------------------
(* Properties of the route *)

\* C27: a non-streaming request that passed verify_token calls AIService.close exactly once, at its end,
\* whether generate_response returned or raised; it ends with the 200 response
\* carrying the result, or with a 500 response whose detail is the error raised.
C27_NonStreamingClosesOnce ==
    (~is_streaming /\ ~Rejected) =>
        /\ close_calls = (IF pc = "done" THEN 1 ELSE 0)
        /\ svc_closed = (pc = "done")
        /\ pc = "done" =>
            \/ /\ response.status = 200
               /\ raised = NoError
               /\ log # <<>>
               /\ log[Len(log)].ev = "ok"
               /\ response.body.content = log[Len(log)].data
            \/ /\ response.status = 500
               /\ raised # NoError
               /\ response.detail = raised
               /\ \A j \in DOMAIN log : log[j].ev # "ok"

\* generate_response raised the last step's vendor error and the route answered 500
C27_Witness ==
    /\ ~is_streaming
    /\ pc = "done"
    /\ response.status = 500
    /\ response.detail.kind = "APIConnectionError"
    /\ close_calls = 1

\* C28: a request whose bearer token differs from the configured API token is
\* answered 401 and nothing else happens for it: no service and no generator is
\* constructed, no step is tried, no network client exists, nothing is closed and
\* no frame is sent.
C28_UnauthenticatedNeverReachesCore ==
    token # "your-secure-token-here" =>
        /\ pc \in {"auth", "done"}
        /\ pc = "done" => response.status = 401 /\ response.body = EmptyDict
        /\ eg_pc = "none" /\ gs_pc = "none"
        /\ log = <<>> /\ idx = 0 /\ raised = NoError
        /\ created = 0 /\ \A p \in Providers : client[p] = 0
        /\ stream.state = "none"
        /\ frames = <<>>
        /\ close_calls = 0 /\ ~svc_closed

\* a request with a wrong token was answered 401
C28_Witness ==
    /\ token = "wrong-token"
    /\ pc = "done"
    /\ response.status = 401

----------------------------------------------------------------------------
(* Properties of the shipped configuration *)

\* C29: under DEFAULT_MODEL_CONFIG both model types, chat and completion, have a
\* plan whose primary names a registered provider, so the primary step never
\* fails with the unknown-provider error: once tried, its provider is resolved
\* and invoked.
C29_PrimaryProviderRegistered ==
    config = DEFAULT_MODEL_CONFIG =>
        /\ \A t \in {"chat", "completion"} :
            t \in DOMAIN config /\ config[t].primary.provider \in {"openai", "anthropic"}
        /\ \A j \in DOMAIN log :
            (log[j].ev = "fail" /\ log[j].idx = 1) => log[j].data.kind # "unknown_provider"
        /\ \A j \in DOMAIN log :
            (log[j].ev = "try" /\ log[j].idx = 1 /\ ~ContentBlank) =>
                (j < Len(log) /\ log[j + 1].ev = "invoke")
        /\ raised.kind = "unknown_provider" => raised.at # 1

\* the shipped configuration served a completion request with its primary
C29_Witness ==
    /\ config = DEFAULT_MODEL_CONFIG
    /\ model_type = "completion"
    /\ pc = "done"
    /\ response.status = 200
    /\ Len(log) = 3
    /\ log[3] = [ev |-> "ok", idx |-> 1, data |-> "A"]

\* C30: the model given to the provider of every invoked step, primary or
\* fallback, is the caller's model override when there is one, and the step's own
\* configured model otherwise.
C30_ModelOverride ==
    \A j \in DOMAIN log :
        log[j].ev = "invoke" =>
            log[j].data["model"] =
                (IF "model" \in DOMAIN params
                 THEN params["model"]
                 ELSE ConfiguredStep(log[j].idx).model)

\* an anthropic fallback was invoked with the caller's model gpt-4
C30_Witness ==
    /\ "model" \in DOMAIN params
    /\ \E j \in DOMAIN log :
        /\ log[j].ev = "invoke"
        /\ log[j].idx = 2
        /\ ConfiguredStep(2).provider = "anthropic"
        /\ ConfiguredStep(2).model # "gpt-4"
        /\ log[j].data["model"] = "gpt-4"


----------------------------------------------------------------------------
(* Properties of a stream whose setup failed *)

\* the kinds of failure of the walk that leave a streaming call without a handle
SetupFailureKinds == {"no_config", "no_content", "unknown_provider"}

\* the error frame the wire format prescribes for the walk's exception
SetupErrorFrame ==
    [event |-> "error",
     data |-> [wellformed |-> TRUE,
               obj |-> ("error" :> <<"Error in streaming response: ",
                                     raised.kind, raised.who>>)]]

\* C31: when the walk raises in streaming mode (unknown model type, empty content,
\* every step failing before a handle exists), no handle exists and no fragment is
\* yielded; once generate_stream has caught the exception the frames are the one
\* error frame carrying it, followed by End when the stream is consumed on, and
\* nothing else (no chunk frame); the route answers no error status.
C31_SetupFailureStream ==
    (is_streaming /\ raised # NoError) =>
        /\ raised.kind \in SetupFailureKinds
        /\ stream.state = "none"
        /\ yielded = <<>>
        /\ pc = "orch_raised" => frames = <<>>
        /\ pc # "orch_raised" =>
                (frames = <<SetupErrorFrame>> \/ frames = <<SetupErrorFrame, ExpectedEnd>>)
        /\ ConsumedToEnd => frames = <<SetupErrorFrame, ExpectedEnd>>
        /\ \A i \in DOMAIN frames : frames[i].event # "message"
        /\ response.status = 0
        /\ pc # "route_except"

\* a streaming request with blank content under a plan with a fallback: both steps
\* failed without a handle, and the consumer read the error frame and End
C31_Witness ==
    /\ is_streaming
    /\ raised.kind = "no_content"
    /\ Len(log) = 4
    /\ eg_pc = "finished"
    /\ consumer = "active"
    /\ Len(frames) = 2
    /\ frames[1].event = "error"
    /\ frames[2].event = "end"

----------------------------------------------------------------------------
(* Properties of AIService.close *)

\* the calls of AIService.close among the first n operations
ClosesBefore(n) == {i \in 1..n : log[i].ev = "close"}

\* C32: the first call of AIService.close calls close on every registered provider
\* exactly once, whichever of them raise, and every later call calls none; no call
\* lets an exception out; the service is marked closed from the first call on.
C32_CloseClosesAllOnce ==
    /\ \A j \in DOMAIN log :
        log[j].ev = "close" =>
            /\ ~log[j].data.propagated
            /\ IF ClosesBefore(j - 1) = {}
               THEN /\ Len(log[j].data.called) = Cardinality(Providers)
                    /\ \A p \in Providers :
                        Cardinality({i \in DOMAIN log[j].data.called :
                                        log[j].data.called[i] = p}) = 1
               ELSE log[j].data.called = <<>>
    /\ svc_closed <=> ClosesBefore(Len(log)) # {}

\* both providers held a client, the first provider's close raised and the second
\* provider's client was closed all the same; a second call closed nothing
C32_Witness ==
    /\ Len(log) = 4
    /\ log[3].ev = "close"
    /\ log[3].data.raised = {"openai"}
    /\ closed_clients = <<[id |-> 1, raised |-> TRUE], [id |-> 2, raised |-> FALSE]>>
    /\ log[4].ev = "close"
    /\ log[4].data.called = <<>>
    /\ svc_closed

\* C33: whenever the service is marked closed, no provider of it holds a network
\* client.
C33_NoClientAfterClose ==
    svc_closed => \A p \in Providers : client[p] = 0

----------------------------------------------------------------------------
(* Properties of interleaved operations on one provider *)

\* the operations that obtained a client of provider p
HoldersOf(p) ==
    {t \in Operations : pc.ops[t].provider = p /\ pc.ops[t].at \in {"awaiting", "done"}}

\* the network clients constructed for provider p
ConstructedFor(p) ==
    {j \in DOMAIN log : log[j].ev = "construct" /\ log[j].data.provider = p}

\* C34: however the operations on a provider are interleaved at their suspension
\* points, at most one network client is constructed for it, every operation that
\* obtained a client obtained that one, and no operation is suspended between
\* finding the client uninitialized and constructing it.
C34_LazyInitAtomic ==
    /\ \A p \in Providers :
        /\ Cardinality(ConstructedFor(p)) <= 1
        /\ \A t \in HoldersOf(p) : pc.ops[t].got = client[p] /\ client[p] # 0
    /\ \A t \in Operations : pc.ops[t].at = "construct" => pc.running = t

\* two operations on the same provider are both suspended in their vendor calls:
\* the first found the client uninitialized and constructed it, the second began
\* while the first was suspended, and both hold the same client
C34_Witness ==
    /\ pc.ops[1].provider = "openai" /\ pc.ops[2].provider = "openai"
    /\ pc.ops[1].at = "awaiting" /\ pc.ops[2].at = "awaiting"
    /\ pc.ops[1].saw_none /\ ~pc.ops[2].saw_none
    /\ pc.ops[1].got = 1 /\ pc.ops[2].got = 1
    /\ created = 1

----------------------------------------------------------------------------
(* Termination of the walk *)

\* C35: when every awaited provider call comes back, a call of the walk ends, with
\* a value returned or an error raised, and at no time has it invoked more
\* providers than its plan has steps (the primary and the fallbacks).
C35_WalkTerminates ==
    /\ [](Configured => Len(Invokes) <= 1 + Len(CurrentPlan.fallbacks))
    /\ [](~Configured => Len(Invokes) = 0)
    /\ (pc = "orch_config") ~> (pc \in {"orch_returned", "orch_raised"})

\* a walk over a plan with two fallbacks ended after three provider invocations
C35_Witness ==
    /\ ~is_streaming
    /\ Configured
    /\ Len(CurrentPlan.fallbacks) = 2
    /\ Len(Invokes) = 3
    /\ pc \in {"orch_returned", "orch_raised"}
====
